---- MODULE Spec2Model ----
(***************************************************************************)
(* Model of swconfig_otb: the serial session with the TG-NET switch        *)
(* (sw.py, class Sw) and the VLAN reconciliation built on it (sw_vlan.py). *)
(* Python strings are TLA+ strings, lists are sequences, None is the       *)
(* value None.  Every device input (the bytes echoed while a string is     *)
(* sent, the lines one readlines() call returns) is chosen by the          *)
(* environment from a finite catalogue.                                    *)
(***************************************************************************)
EXTENDS Integers, Sequences, FiniteSets, TLC

VARIABLES
    sock_open,     \* self.sock is open
    state,         \* self.state (None or a member of _States)
    hostname,      \* self.hostname (None or a string)
    bad_echo,      \* self._bad_echo
    timeout,       \* self.sock.timeout, in units of config.READ_TIMEOUT
    op,            \* the public call in progress or just finished
    ph,            \* where the call stands: "tx", "rx", "ret", "done"
    kont,          \* the frames waiting for a callee, innermost first
    snd,           \* the arguments of the running _send
    tries,         \* failed attempts of the running _recv_once_retry
    more,          \* the running _recv is inside its while loop
    whole_out,     \* _recv: whole_out
    all_comments,  \* _recv: all_comments
    rv,            \* the value the last callee returned
    err,           \* the exception that ended the call, or NoErr
    txlog,         \* every byte the running _send wrote to the socket
    sends,         \* the arguments of every _send of the call, in order
    rx,            \* what each readlines() of the running _send returned
    entry,         \* self.state when the caller called _goto_admin_main_prompt
    upd,           \* the locals of update_vlan_conf
    ifr,           \* _str_to_if_range called on its own: argument and result
    chk            \* the echo check of one character taken on its own

vars == <<sock_open, state, hostname, bad_echo, timeout, op, ph, kont, snd,
          tries, more, whole_out, all_comments, rv, err, txlog, sends, rx, entry,
          upd, ifr, chk>>

(***************************************************************************)
(* Values                                                                  *)
(***************************************************************************)
None == "<None>"
NoErr == "<no exception>"

\* Bytes that have no escape in a TLA+ string are written as themselves.
ETX == ""
_MORE_MAGIC == <<"", "[A[2K">>

\* swconfig_otb/sw_state.py: each state with its prompt needle
PRESS_ANY_KEY == "PRESS_ANY_KEY"
LOGIN_USERNAME == "LOGIN_USERNAME"
LOGIN_PASSWORD == "LOGIN_PASSWORD"
MORE == "MORE"
CONFIG == "CONFIG"
CONFIG_VLAN == "CONFIG_VLAN"
CONFIG_IF == "CONFIG_IF"
CONFIG_IF_RANGE == "CONFIG_IF_RANGE"
ADMIN_MAIN == "ADMIN_MAIN"
USER_MAIN == "USER_MAIN"

_States == {PRESS_ANY_KEY, LOGIN_USERNAME, LOGIN_PASSWORD, MORE, CONFIG,
            CONFIG_VLAN, CONFIG_IF, CONFIG_IF_RANGE, ADMIN_MAIN, USER_MAIN}

prompt_needle(s) ==
    CASE s = PRESS_ANY_KEY   -> "Press any key to continue"
      [] s = LOGIN_USERNAME  -> "Username: "
      [] s = LOGIN_PASSWORD  -> "Password: "
      [] s = MORE            -> "--More--"
      [] s = CONFIG          -> "(config)# "
      [] s = CONFIG_VLAN     -> "(config-vlan)# "
      [] s = CONFIG_IF       -> "(config-if)# "
      [] s = CONFIG_IF_RANGE -> "(config-if-range)# "
      [] s = ADMIN_MAIN      -> "# "
      [] s = USER_MAIN       -> "> "

\* swconfig_otb/config.py
USER == "admin"
PASSWORD == "pass"
READ_RETRIES == 3
READ_TIMEOUT == 1
BAD_ECHO_BUDGET == 1
PORT_MIN == 1
PORT_MAX == 2
DEFAULT_VLAN == 1

(***************************************************************************)
(* Python's str and list operations                                        *)
(***************************************************************************)
Char(s, i) == SubSeq(s, i, i)

startswith(s, p) == Len(s) >= Len(p) /\ SubSeq(s, 1, Len(p)) = p

\* sub in s
Contains(s, sub) ==
    \E i \in 1..(Len(s) - Len(sub) + 1) : SubSeq(s, i, i + Len(sub) - 1) = sub

\* the first index >= from at which sub occurs in s, 0 when there is none
Find(s, sub, from) ==
    LET I == {i \in from..(Len(s) - Len(sub) + 1) : SubSeq(s, i, i + Len(sub) - 1) = sub}
    IN  IF I = {} THEN 0 ELSE CHOOSE i \in I : \A j \in I : i <= j

\* s.rstrip("\r\n")
RECURSIVE rstrip(_)
rstrip(s) ==
    IF Len(s) > 0 /\ Char(s, Len(s)) \in {"\r", "\n"}
    THEN rstrip(SubSeq(s, 1, Len(s) - 1))
    ELSE s

\* filter(None, l): the non-empty strings of l, in order
FilterNone(l) == SelectSeq(l, LAMBDA x : x # "")

\* any(needle in l for l in lines)
AnyContains(lines, needle) == \E i \in 1..Len(lines) : Contains(lines[i], needle)

\* F of the value of v, which is computed once
With(v, F(_)) == CHOOSE r \in {F(x) : x \in {v}} : TRUE

\* list.pop(): the list without its last element
Pop(l) == SubSeq(l, 1, Len(l) - 1)

(***************************************************************************)
(* Sw._filter searches the line for a device comment: a '*', any text,     *)
(* ": %", any text, ": ", any text.  The match starts at the first '*' of  *)
(* the line (an earlier start can only help) and runs to the end of the    *)
(* line; it exists when ": %" and later ": " follow.                       *)
(***************************************************************************)
CommentStart(line) ==
    LET star == Find(line, "*", 1)
        tag  == IF star = 0 THEN 0 ELSE Find(line, ": %", star + 1)
        msg  == IF tag = 0 THEN 0 ELSE Find(line, ": ", tag + 3)
    IN  IF msg = 0 THEN 0 ELSE star

\* the line returned, and the comments pushed (none or one)
_filter(line) ==
    LET i == CommentStart(line)
    IN  IF i = 0
        THEN [line |-> line, comments |-> <<>>]
        ELSE [line |-> SubSeq(line, 1, i - 1),
              comments |-> <<SubSeq(line, i, Len(line))>>]

(***************************************************************************)
(* Sw._determine_hostname searches the line for: one or more characters    *)
(* other than '(' (the hostname group), any text, then '>' or '#' and a    *)
(* space.  The search starts at the first character that is not '('; the   *)
(* group is greedy and stops before the next '(' or, at the latest,        *)
(* before the last "> " or "# " of the line.                               *)
(***************************************************************************)
MarkerAt(l, q) == q + 1 <= Len(l) /\ Char(l, q) \in {">", "#"} /\ Char(l, q + 1) = " "

_determine_hostname(l) ==
    LET S == {s \in 1..Len(l) : Char(l, s) # "(" /\ \E q \in (s + 1)..Len(l) : MarkerAt(l, q)}
    IN  IF S = {} THEN None
        ELSE LET s == CHOOSE x \in S : \A y \in S : x <= y
                 E == {e \in (s + 1)..(Len(l) + 1) :
                          /\ \A k \in s..(e - 1) : Char(l, k) # "("
                          /\ \E q \in e..Len(l) : MarkerAt(l, q)}
                 e == CHOOSE x \in E : \A y \in E : x >= y
             IN  SubSeq(l, s, e - 1)

(***************************************************************************)
(* Sw._parse_prompt(out): the state, the output (the prompt line popped    *)
(* when the code pops it) and the hostname after the call.                 *)
(***************************************************************************)
FixedStates == <<PRESS_ANY_KEY, LOGIN_USERNAME, LOGIN_PASSWORD, MORE>>
HostStates == <<CONFIG, CONFIG_VLAN, CONFIG_IF, CONFIG_IF_RANGE, ADMIN_MAIN, USER_MAIN>>

\* the first state of the list whose needle, after prefix, starts the line
FirstMatch(states, prefix, last_line) ==
    LET I == {i \in 1..Len(states) : startswith(last_line, prefix \o prompt_needle(states[i]))}
    IN  IF I = {} THEN None ELSE states[CHOOSE i \in I : \A j \in I : i <= j]

\* the matched line left in the output
_parse_prompt_keep(out, host) ==
    LET last_line == out[Len(out)]
        fixed == FirstMatch(FixedStates, "", last_line)
        host2 == IF host = None THEN _determine_hostname(last_line) ELSE host
        named == IF host2 = None THEN None ELSE FirstMatch(HostStates, host2, last_line)
    IN  IF fixed # None THEN [state |-> fixed, out |-> out, hostname |-> host]
        ELSE IF host2 = None THEN [state |-> None, out |-> out, hostname |-> host]
        ELSE [state |-> named, out |-> out, hostname |-> host2]

\* the hostname taken from every prompt read
_parse_prompt_rehost(out, host) ==
    LET last_line == out[Len(out)]
        fixed == FirstMatch(FixedStates, "", last_line)
        host2 == _determine_hostname(last_line)
        named == IF host2 = None THEN None ELSE FirstMatch(HostStates, host2, last_line)
    IN  IF fixed # None
        THEN [state |-> fixed, out |-> IF fixed = MORE THEN Pop(out) ELSE out,
              hostname |-> host]
        ELSE IF host2 = None
        THEN [state |-> None, out |-> out, hostname |-> host]
        ELSE IF named # None
        THEN [state |-> named, out |-> Pop(out), hostname |-> host2]
        ELSE [state |-> None, out |-> out, hostname |-> host2]

_parse_prompt(out, host) ==
    LET last_line == out[Len(out)]
        fixed == FirstMatch(FixedStates, "", last_line)
        host2 == IF host = None THEN _determine_hostname(last_line) ELSE host
        named == IF host2 = None THEN None ELSE FirstMatch(HostStates, host2, last_line)
    IN  IF fixed # None
        THEN [state |-> fixed, out |-> IF fixed = MORE THEN Pop(out) ELSE out,
              hostname |-> host]
        ELSE IF host2 = None
        THEN [state |-> None, out |-> out, hostname |-> host]
        ELSE IF named # None
        THEN [state |-> named, out |-> Pop(out), hostname |-> host2]
        ELSE [state |-> None, out |-> out, hostname |-> host2]

(***************************************************************************)
(* The program state as one record, so that each method is a function      *)
(* from the state before (and the device's input) to the state after.      *)
(***************************************************************************)
NoSend == [string |-> "", bypass_echo_check |-> TRUE, auto_more |-> FALSE]
NoVlan == 0    \* 'untagged': None
NoUpd == [vlans_new |-> {}, ports_new |-> <<>>, vlans_old |-> {}, ports_old |-> <<>>,
          script |-> <<>>]
NoIfr == [string |-> "", ph |-> "done", err |-> NoErr, range_ |-> {}]
NoChk == [state |-> None, char |-> "", bytes |-> "", ph |-> "done", reads |-> 0,
          echo |-> "", bad |-> FALSE]

Cur == [sock_open |-> sock_open, state |-> state, hostname |-> hostname,
        bad_echo |-> bad_echo, timeout |-> timeout, op |-> op, ph |-> ph,
        kont |-> kont, snd |-> snd, tries |-> tries, more |-> more,
        whole_out |-> whole_out, all_comments |-> all_comments, rv |-> rv,
        err |-> err, txlog |-> txlog, sends |-> sends, rx |-> rx,
        entry |-> entry, upd |-> upd]

\* the state after a step is the record next (it is computed once)
Set(next) ==
    \E n \in {next} :
        /\ sock_open' = n.sock_open /\ state' = n.state /\ hostname' = n.hostname
        /\ bad_echo' = n.bad_echo /\ timeout' = n.timeout /\ op' = n.op /\ ph' = n.ph
        /\ kont' = n.kont /\ snd' = n.snd /\ tries' = n.tries /\ more' = n.more
        /\ whole_out' = n.whole_out /\ all_comments' = n.all_comments /\ rv' = n.rv
        /\ err' = n.err /\ txlog' = n.txlog /\ sends' = n.sends /\ rx' = n.rx
        /\ entry' = n.entry /\ upd' = n.upd
        /\ UNCHANGED <<ifr, chk>>

\* Sw.__init__
__init__ ==
    /\ sock_open = FALSE /\ state = None /\ hostname = None /\ bad_echo = 0
    /\ timeout = READ_TIMEOUT
    /\ op = "__init__" /\ ph = "done" /\ kont = <<>> /\ snd = NoSend
    /\ tries = 0 /\ more = 0 /\ whole_out = <<>> /\ all_comments = <<>>
    /\ rv = None /\ err = NoErr /\ txlog = "" /\ sends = <<>> /\ rx = <<>>
    /\ entry = None /\ upd = NoUpd

Init == __init__ /\ ifr = NoIfr /\ chk = NoChk

\* a public method is entered: the record of the previous call is dropped
Begin(s, name) ==
    [s EXCEPT !.op = name, !.ph = "done", !.kont = <<>>, !.snd = NoSend,
              !.tries = 0, !.more = 0, !.whole_out = <<>>, !.all_comments = <<>>,
              !.rv = None, !.err = NoErr, !.txlog = "", !.sends = <<>>,
              !.rx = <<>>, !.entry = None, !.upd = NoUpd]

\* a method returns v to the frames k that wait for it
ReturnTo(s, k, v) ==
    [s EXCEPT !.ph = IF k = <<>> THEN "done" ELSE "ret", !.kont = k, !.rv = v]

\* an exception no frame catches ends the public call
Raise(s, e) == [s EXCEPT !.ph = "done", !.kont = <<>>, !.err = e]

\* _send(string, bypass_echo_check, auto_more) is entered; k waits for it
_send(s, string, bypass_echo_check, auto_more, k) ==
    LET a == [string |-> string, bypass_echo_check |-> bypass_echo_check,
              auto_more |-> auto_more]
    IN  [s EXCEPT !.ph = "tx", !.kont = k, !.snd = a,
                  !.tries = 0, !.more = 0, !.whole_out = <<>>, !.all_comments = <<>>,
                  !.sends = Append(@, a), !.rx = <<>>, !.txlog = ""]

\* send_cmd(cmd): _send("%s\n" % (cmd), False, True, timeout)
send_cmd(s, cmd, k) == _send(s, cmd \o "\n", FALSE, TRUE, k)

(***************************************************************************)
(* Sw._send, lines 182-210: the loop over the characters of the string.    *)
(* echoes[i] holds the bytes the device delivers to the one or two         *)
(* sock.read(1) calls that follow the write of character i; a read(1)      *)
(* that finds no byte before the timeout returns the empty string.         *)
(***************************************************************************)
\* the echo as compared: a carriage return is skipped, one more byte is read
EchoRead(bytes) ==
    IF bytes = "" THEN ""
    ELSE IF Char(bytes, 1) # "\r" THEN Char(bytes, 1)
    ELSE IF Len(bytes) > 1 THEN Char(bytes, 2) ELSE ""

\* the calls of self.sock.read(1) made for one character, lines 190-191
EchoReads(bytes) == IF bytes # "" /\ Char(bytes, 1) = "\r" THEN 2 ELSE 1

\* a '*' taken for a good echo in every state
Expected_anystate(st, echo, char) == IF echo # char THEN "*" ELSE char

\* expected = '*' if self.state == LOGIN_PASSWORD and echo != char else char
Expected(st, echo, char) == IF st = LOGIN_PASSWORD /\ echo # char THEN "*" ELSE char

BadEcho(st, echo, char) == echo # Expected(st, echo, char)

\* lines 203-204: hex(ord(echo)) raises TypeError for the empty string
OrdError(echo) == Len(echo) # 1

\* if self._bad_echo > config.BAD_ECHO_BUDGET
BudgetExceeded(n) == n > BAD_ECHO_BUDGET

RECURSIVE SendLoop(_, _, _, _, _, _)
SendLoop(string, echoes, bypass, st, i, acc) ==
    IF i > Len(string) THEN acc
    ELSE LET char == Char(string, i)
             sent == [acc EXCEPT !.txlog = @ \o char]
         IN  IF bypass THEN SendLoop(string, echoes, bypass, st, i + 1, sent)
             ELSE IF ~BadEcho(st, EchoRead(echoes[i]), char)
             THEN SendLoop(string, echoes, bypass, st, i + 1, sent)
             ELSE LET bad == [sent EXCEPT !.bad_echo = @ + 1]
                  IN  IF OrdError(EchoRead(echoes[i]))
                      THEN [bad EXCEPT !.raised = "TypeError"]
                      ELSE IF BudgetExceeded(bad.bad_echo)
                      THEN [bad EXCEPT !.raised = "SwitchBadEchoBudgetExceededError"]
                      ELSE SendLoop(string, echoes, bypass, st, i + 1, bad)

\* the whole loop; then _recv(auto_more, timeout) sets the socket timeout
SendChars_(s, echoes) ==
    With(SendLoop(s.snd.string, echoes, s.snd.bypass_echo_check, s.state, 1,
                  [txlog |-> s.txlog, bad_echo |-> s.bad_echo, raised |-> NoErr]),
         LAMBDA r :
    With([s EXCEPT !.txlog = r.txlog, !.bad_echo = r.bad_echo], LAMBDA t :
        IF r.raised # NoErr THEN Raise(t, r.raised)
        ELSE [t EXCEPT !.ph = "rx", !.timeout = READ_TIMEOUT]))

\* What the device may echo for one character: the character itself (a line
\* feed comes back as CR LF), the password mask, a stray byte, two carriage
\* returns, the character behind a carriage return, or nothing.
EchoOf(kind, char) ==
    CASE kind = "ok"   -> IF char = "\n" THEN "\r\n" ELSE char
      [] kind = "none" -> ""
      [] kind = "star" -> IF char = "\n" THEN "\r\n" ELSE "*"
      [] kind = "junk" -> "x"
      [] kind = "crcr" -> "\r\r"
      [] kind = "crok" -> "\r" \o char

\* the echo streams of one string: E.first for its first character, E.last
\* for its last, one kind of E.base for every character between them
EchoIn(E, string) ==
    { [i \in 1..Len(string) |->
          EchoOf(IF i = 1 THEN k[1] ELSE IF i = Len(string) THEN k[3] ELSE k[2],
                 Char(string, i))] : k \in E.first \X E.base \X E.last }

SendChars(E) ==
    /\ ph = "tx"
    /\ \E echoes \in IF snd.bypass_echo_check THEN {<<>>} ELSE EchoIn(E, snd.string) :
          Set(SendChars_(Cur, echoes))

(***************************************************************************)
(* Sw._recv_once on the lines one sock.readlines() call returned           *)
(***************************************************************************)
RECURSIVE Concat(_)
Concat(ss) == IF ss = <<>> THEN <<>> ELSE Head(ss) \o Concat(Tail(ss))

\* the comments of the raw lines, in arrival order
RawComments(raw) == Concat([i \in 1..Len(raw) |-> _filter(rstrip(raw[i])).comments])

\* out = filter(None, [self._filter(l.rstrip("\r\n"), coms) for l in readlines()])
FilteredLines(raw) == FilterNone([i \in 1..Len(raw) |-> _filter(rstrip(raw[i])).line])

\* what the method hands back when the read did not time out
ComsReturned(raw) == RawComments(raw)

_recv_once(raw, host) ==
    With(FilteredLines(raw), LAMBDA out :
        IF out = <<>>
        THEN [raised |-> TRUE, out |-> <<>>, coms |-> <<>>, state |-> None,
              hostname |-> host]
        ELSE With(_parse_prompt(out, host), LAMBDA p :
                 [raised |-> FALSE, out |-> p.out, coms |-> ComsReturned(raw),
                  state |-> p.state, hostname |-> p.hostname]))

(***************************************************************************)
(* Sw._recv, lines 87-99: the body of the while loop after the read        *)
(***************************************************************************)
\* out[0] == _MORE_MAGIC[0] and out[1].startswith(_MORE_MAGIC[1]) cannot be
\* evaluated: out is empty, or holds the backspace line alone
MagicIndexError(out) == Len(out) = 0 \/ (out[1] = _MORE_MAGIC[1] /\ Len(out) = 1)

HasMagic(out) ==
    /\ Len(out) >= 2
    /\ out[1] = _MORE_MAGIC[1]
    /\ startswith(out[2], _MORE_MAGIC[2])

\* the lines of a further page kept as they came
StripMagic_kept(out) == out

\* out.pop(0); out[0] = out[0][len(_MORE_MAGIC[1]):]
StripMagic(out) ==
    IF HasMagic(out)
    THEN <<SubSeq(out[2], Len(_MORE_MAGIC[2]) + 1, Len(out[2]))>> \o SubSeq(out, 3, Len(out))
    ELSE out

\* while auto_more and self.state == MORE: self.sock.write(" ") and read on;
\* otherwise return (whole_out, all_comments)
RecvLoop(after) ==
    With(after, LAMBDA s :
        IF s.snd.auto_more /\ s.state = MORE
        THEN [s EXCEPT !.txlog = @ \o " ", !.more = @ + 1, !.tries = 0, !.ph = "rx"]
        ELSE [s EXCEPT !.ph = IF s.kont = <<>> THEN "done" ELSE "ret"])

(***************************************************************************)
(* One attempt of Sw._recv_once_retry and what _recv does with its result  *)
(***************************************************************************)
\* a failed attempt leaves the timeout as it was
Backoff_same(t) == t

\* line 108: self.sock.timeout = self.sock.timeout * 2
Backoff(t) == t * 2

RecvOnce_(before, raw) ==
    With(_recv_once(raw, before.hostname), LAMBDA r :
    With([before EXCEPT !.rx = Append(@, raw)], LAMBDA s :
        IF r.raised
        THEN With([s EXCEPT !.timeout = Backoff(@), !.tries = @ + 1], LAMBDA u :
                 IF u.tries = READ_RETRIES
                 THEN Raise(u, "SerialTimeoutException")
                 ELSE u)
        ELSE With([s EXCEPT !.state = r.state, !.hostname = r.hostname], LAMBDA u :
                 IF s.more = 0
                 THEN RecvLoop([u EXCEPT !.timeout = READ_TIMEOUT,
                                         !.whole_out = r.out,
                                         !.all_comments = r.coms])
                 ELSE IF MagicIndexError(r.out)
                 THEN Raise(u, "IndexError")
                 ELSE RecvLoop([u EXCEPT !.whole_out = @ \o StripMagic(r.out),
                                         !.all_comments = @ \o r.coms]))))

\* the device pages at most MaxPages times in one answer
MaxPages == 2

RecvOnce(R) ==
    /\ ph = "rx"
    /\ \E raw \in R : \E n \in {RecvOnce_(Cur, raw)} :
          /\ n.more <= MaxPages
          /\ Set(n)

(***************************************************************************)
(* Sw._login and Sw._goto_admin_main_prompt, up to their next _send.       *)
(* k: the frames waiting for the method's return value.                    *)
(***************************************************************************)
\* lines 342-357
LoginPassword(s, k) ==
    IF s.state = LOGIN_PASSWORD
    THEN send_cmd(s, PASSWORD, <<"login_pass">> \o k)
    ELSE Raise(s, "AssertionError")

\* the password sent at once, whatever the prompt
_login_passfirst(s, k) == send_cmd(s, PASSWORD, <<"login_pass">> \o k)

\* lines 320-321
_login(s, k) ==
    IF s.state = LOGIN_USERNAME
    THEN send_cmd(s, USER, <<"login_user">> \o k)
    ELSE LoginPassword(s, k)

\* lines 322-333, with out = whole_out
LoginUser_(s) ==
    LET k == Tail(s.kont)
    IN  IF AnyContains(s.whole_out, "Incorrect User Name") THEN ReturnTo(s, k, "False")
        ELSE IF s.state # LOGIN_PASSWORD THEN ReturnTo(s, k, "False")
        ELSE LoginPassword(s, k)

\* lines 344-353, with comments = all_comments
LoginResult(comments) ==
    IF AnyContains(comments, "ACCEPTED") THEN "True"
    ELSE IF AnyContains(comments, "REJECTED") THEN "False"
    ELSE "False"

LoginPass_(s) == ReturnTo(s, Tail(s.kont), LoginResult(s.all_comments))

\* return res and self.state == _States.ADMIN_MAIN, res being None, a list
\* or a bool: a falsy res is returned as it is
GotoReturn(res, st) ==
    IF res \in {None, "[]", "False"} THEN res
    ELSE IF st = ADMIN_MAIN THEN "True" ELSE "False"

\* lines 250-268: the state is known and is not ADMIN_MAIN
GotoRecover(s, k) ==
    IF s.state = MORE THEN _send(s, ETX, TRUE, FALSE, <<"goto_res">> \o k)
    ELSE IF s.state = USER_MAIN THEN send_cmd(s, "enable", <<"goto_res">> \o k)
    ELSE IF s.state \in {CONFIG, CONFIG_VLAN, CONFIG_IF, CONFIG_IF_RANGE}
    THEN send_cmd(s, "end", <<"goto_res">> \o k)
    ELSE IF s.state \in {LOGIN_USERNAME, LOGIN_PASSWORD}
    THEN _login(s, <<"goto_login">> \o k)
    ELSE ReturnTo(s, k, GotoReturn(None, s.state))

\* the test of lines 247-248 left out
GotoKnown_unchecked(s, k) == GotoRecover(s, k)

\* lines 243-248: if self.state == _States.ADMIN_MAIN: return True
GotoKnown(s, k) ==
    IF s.state = ADMIN_MAIN THEN ReturnTo(s, k, "True") ELSE GotoRecover(s, k)

\* the blank keystroke of lines 238-241 left out
_goto_admin_main_prompt_nokey(s, k) == GotoKnown(s, k)

\* lines 234-241
_goto_admin_main_prompt(s, k) ==
    IF s.state \in {None, PRESS_ANY_KEY}
    THEN _send(s, "\n", TRUE, FALSE, <<"goto_known">> \o k)
    ELSE GotoKnown(s, k)

\* res, _ = self._send(...) / self.send_cmd(...): res is the list whole_out
GotoRes_(s) ==
    ReturnTo(s, Tail(s.kont),
             GotoReturn(IF s.whole_out = <<>> THEN "[]" ELSE "list", s.state))

\* res = self._login()
GotoLogin_(s) == ReturnTo(s, Tail(s.kont), GotoReturn(s.rv, s.state))

\* Sw.open_: self.sock.open(); self._goto_admin_main_prompt()
open_(s) == _goto_admin_main_prompt([s EXCEPT !.sock_open = TRUE], <<"open_">>)

\* open_ drops what _goto_admin_main_prompt returned
Open_(s) == ReturnTo(s, Tail(s.kont), None)

\* a close that leaves the count of bad echoes as it is
close_keepcount(s) == [s EXCEPT !.sock_open = FALSE, !.state = None, !.hostname = None]

\* Sw.close
close(s) == [s EXCEPT !.sock_open = FALSE, !.state = None, !.hostname = None,
                      !.bad_echo = 0]

(***************************************************************************)
(* sw_vlan.py: more of Python's str operations                             *)
(***************************************************************************)
\* s.split(c), c one character
RECURSIVE split(_, _)
split(s, c) ==
    LET i == Find(s, c, 1)
    IN  IF i = 0 THEN <<s>>
        ELSE <<SubSeq(s, 1, i - 1)>> \o split(SubSeq(s, i + 1, Len(s)), c)

Whitespace == {" ", "\t", "\r", "\n"}

RECURSIVE lstrip(_)
lstrip(s) ==
    IF Len(s) > 0 /\ Char(s, 1) \in Whitespace THEN lstrip(Tail(s)) ELSE s

RECURSIVE rstripws(_)
rstripws(s) ==
    IF Len(s) > 0 /\ Char(s, Len(s)) \in Whitespace
    THEN rstripws(SubSeq(s, 1, Len(s) - 1))
    ELSE s

\* s.strip()
strip(s) == rstripws(lstrip(s))

Digits == "0123456789"
IsDigit(c) == \E d \in 1..10 : Char(Digits, d) = c
DigitVal(c) == (CHOOSE d \in 1..10 : Char(Digits, d) = c) - 1

\* int(s) raises ValueError unless s is a run of digits
IsInt(s) == Len(s) > 0 /\ \A i \in 1..Len(s) : IsDigit(Char(s, i))

RECURSIVE int(_)
int(s) == IF s = "" THEN 0 ELSE 10 * int(SubSeq(s, 1, Len(s) - 1)) + DigitVal(Char(s, Len(s)))

\* str(n), '%d' % n for n >= 0
RECURSIVE str(_)
str(n) == IF n < 10 THEN Char(Digits, n + 1) ELSE str(n \div 10) \o Char(Digits, (n % 10) + 1)

\* the elements of a set of numbers in ascending order, the order in which
\* CPython iterates a set of small non-negative ints
RECURSIVE Ascending(_)
Ascending(S) ==
    IF S = {} THEN <<>>
    ELSE LET m == CHOOSE x \in S : \A y \in S : x <= y
         IN  <<m>> \o Ascending(S \ {m})

\* ','.join(str(v) for v in S)
RECURSIVE join(_)
join(l) ==
    IF l = <<>> THEN ""
    ELSE IF Len(l) = 1 THEN str(l[1])
    ELSE str(l[1]) \o "," \o join(Tail(l))

(***************************************************************************)
(* sw_vlan.py: _str_to_if_range, init_vlan_config_datastruct, _parse_vlans *)
(***************************************************************************)
Ports == PORT_MIN..PORT_MAX

\* the bounds of the 'gi' elements: split by ',', keep those starting with
\* "gi", drop the prefix, split by '-'
IfBounds(string) ==
    LET toks == SelectSeq(split(string, ","), LAMBDA r : startswith(r, "gi"))
    IN  [i \in 1..Len(toks) |-> split(SubSeq(toks[i], 3, Len(toks[i])), "-")]

\* int(r[0]) or int(r[-1]) raises ValueError for some element
IfRangeError(string) ==
    LET b == IfBounds(string)
    IN  \E i \in 1..Len(b) : ~IsInt(b[i][1]) \/ ~IsInt(b[i][Len(b[i])])

\* a pair A-B expanded without its upper bound B
_str_to_if_range_open(string) ==
    LET b == IfBounds(string)
    IN  UNION {int(b[i][1])..(int(b[i][Len(b[i])]) - 1) : i \in 1..Len(b)}

\* the interfaces of the expanded range (the code returns them as a list)
_str_to_if_range(string) ==
    LET b == IfBounds(string)
    IN  UNION {int(b[i][1])..int(b[i][Len(b[i])]) : i \in 1..Len(b)}

init_vlan_config_datastruct ==
    [vlans |-> {}, ports |-> [p \in Ports |-> [untagged |-> NoVlan, tagged |-> {}]]]

\* a later row takes the port over from an earlier one
ParseRow_lastwins(acc, line) ==
    With(split(line, "|"), LAMBDA cells :
    With([i \in 1..Len(cells) |-> strip(cells[i])], LAMBDA row :
    With(int(row[1]), LAMBDA vid :
    With(_str_to_if_range(row[3]), LAMBDA untagged_range :
    With(_str_to_if_range(row[4]), LAMBDA tagged_range :
        [acc EXCEPT
           !.vlans = @ \cup {vid},
           !.ports = [p \in Ports |->
              [untagged |-> IF p \in untagged_range THEN vid ELSE @[p].untagged,
               tagged |-> IF p \in tagged_range
                          THEN @[p].tagged \cup {vid} ELSE @[p].tagged]]])))))

\* one row of the table, lines 105-121; acc.err is the exception raised so far
ParseRow(acc, line) ==
    With(split(line, "|"), LAMBDA cells :
    With([i \in 1..Len(cells) |-> strip(cells[i])], LAMBDA row :
        IF ~IsInt(row[1]) THEN [acc EXCEPT !.err = "ValueError"]
        ELSE IF Len(row) < 4 THEN [acc EXCEPT !.err = "IndexError"]
        ELSE IF IfRangeError(row[3]) THEN [acc EXCEPT !.err = "ValueError"]
        ELSE IF IfRangeError(row[4]) THEN [acc EXCEPT !.err = "ValueError"]
        ELSE With(int(row[1]), LAMBDA vid :
             With(_str_to_if_range(row[3]), LAMBDA untagged_range :
             With(_str_to_if_range(row[4]), LAMBDA tagged_range :
                 IF ~(untagged_range \cup tagged_range \subseteq Ports)
                 THEN [acc EXCEPT !.err = "KeyError"]
                 ELSE [acc EXCEPT
                         !.vlans = @ \cup {vid},
                         !.ports = [p \in Ports |->
                            [untagged |-> IF p \in untagged_range /\ @[p].untagged = NoVlan
                                          THEN vid ELSE @[p].untagged,
                             tagged |-> IF p \in tagged_range
                                        THEN @[p].tagged \cup {vid} ELSE @[p].tagged]]])))))

RECURSIVE ParseRows(_, _)
ParseRows(acc, lines) ==
    IF lines = <<>> \/ acc.err # NoErr THEN acc
    ELSE ParseRows(ParseRow(acc, Head(lines)), Tail(lines))

\* for line in out[2:]
_parse_vlans(out) ==
    ParseRows([err |-> NoErr, vlans |-> init_vlan_config_datastruct.vlans,
               ports |-> init_vlan_config_datastruct.ports],
              SubSeq(out, 3, Len(out)))

(***************************************************************************)
(* sw_vlan.py: _set_diff, _dict_diff and the commands of update_vlan_conf  *)
(***************************************************************************)
_set_diff(old, new) ==
    LET intersect == new \cap old
    IN  [added |-> new \ intersect, removed |-> old \ intersect]

\* the comparison of line 170 inverted
_dict_diff_same(old, new) ==
    {o \in (DOMAIN new) \cap (DOMAIN old) : old[o] = new[o]}

_dict_diff(old, new) ==
    {o \in (DOMAIN new) \cap (DOMAIN old) : old[o] # new[o]}

\* lines 39-41
DeleteCmds(vlan_removed) ==
    [i \in 1..Cardinality(vlan_removed) |-> "no vlan " \o str(Ascending(vlan_removed)[i])]

\* lines 43-46
CreateCmds(vlan_added) ==
    Concat([i \in 1..Cardinality(vlan_added) |->
               <<"vlan " \o str(Ascending(vlan_added)[i]), "exit">>])

\* lines 53-74
TrunkCmds(old, vids) ==
    LET native_vlan == IF vids.untagged # NoVlan THEN vids.untagged ELSE DEFAULT_VLAN
        d == _set_diff(old.tagged, vids.tagged)
    IN  <<"switchport mode trunk",
          "switchport trunk native vlan " \o str(native_vlan)>>
        \o (IF d.removed # {}
            THEN <<"switchport trunk allowed vlan remove " \o join(Ascending(d.removed))>>
            ELSE <<>>)
        \o (IF d.added # {}
            THEN <<"switchport trunk allowed vlan add " \o join(Ascending(d.added))>>
            ELSE <<>>)

\* lines 77-81; '%d' % None raises TypeError
AccessCmds(vids) ==
    IF vids.untagged = NoVlan
    THEN <<"switchport mode access", "<TypeError>">>
    ELSE <<"switchport mode access", "switchport access vlan " \o str(vids.untagged)>>

\* lines 48-83 for one port
PortCmds(port_id, old, vids) ==
    <<"interface GigabitEthernet " \o str(port_id)>>
    \o (IF vids.tagged # {} THEN TrunkCmds(old, vids) ELSE AccessCmds(vids))
    \o <<"exit">>

\* the VLANs created before the obsolete ones are deleted
Script_createfirst(vlans_old, ports_old, vlans_new, ports_new) ==
    LET vd == _set_diff(vlans_old, vlans_new)
        ports_changed == Ascending(_dict_diff(ports_old, ports_new))
    IN  <<"config">>
        \o CreateCmds(vd.added)
        \o DeleteCmds(vd.removed)
        \o Concat([i \in 1..Len(ports_changed) |->
                      PortCmds(ports_changed[i], ports_old[ports_changed[i]],
                               ports_new[ports_changed[i]])])
        \o <<"end">>

\* lines 38-84: every command of the script in the order of the code; the
\* element "<TypeError>" stands for the exception that ends it there
Script(vlans_old, ports_old, vlans_new, ports_new) ==
    LET vd == _set_diff(vlans_old, vlans_new)
        ports_changed == Ascending(_dict_diff(ports_old, ports_new))
    IN  <<"config">>
        \o DeleteCmds(vd.removed)
        \o CreateCmds(vd.added)
        \o Concat([i \in 1..Len(ports_changed) |->
                      PortCmds(ports_changed[i], ports_old[ports_changed[i]],
                               ports_new[ports_changed[i]])])
        \o <<"end">>

\* line 31
NothingToDo(vlans_old, ports_old, vlans_new, ports_new) ==
    /\ _dict_diff(ports_old, ports_new) = {}
    /\ _set_diff(vlans_old, vlans_new).added = {}
    /\ _set_diff(vlans_old, vlans_new).removed = {}

\* update_vlan_conf, line 17: _parse_vlans sends "show vlan static"
update_vlan_conf(s, vlans_new, ports_new) ==
    send_cmd([s EXCEPT !.upd = [NoUpd EXCEPT !.vlans_new = vlans_new,
                                             !.ports_new = ports_new]],
             "show vlan static", <<"parse">>)

\* _parse_vlans lines 100-123 and update_vlan_conf lines 24-36: the table is
\* parsed and compared with the wanted configuration
UpdParse_(s) ==
    With(_parse_vlans(s.whole_out), LAMBDA p :
    With([s.upd EXCEPT !.vlans_old = p.vlans, !.ports_old = p.ports], LAMBDA u :
        IF p.err # NoErr THEN Raise(s, p.err)
        ELSE IF NothingToDo(u.vlans_old, u.ports_old, u.vlans_new, u.ports_new)
        THEN ReturnTo([s EXCEPT !.upd = u], Tail(s.kont), None)
        ELSE With([s EXCEPT !.upd = [u EXCEPT !.script =
                      Script(u.vlans_old, u.ports_old, u.vlans_new, u.ports_new)]],
                  LAMBDA t : _goto_admin_main_prompt(t, <<"script">> \o Tail(s.kont)))))

\* lines 38-84: the next command of the script is sent, whatever the callee
\* (_goto_admin_main_prompt, then each send_cmd) returned
UpdScript_(s) ==
    IF s.upd.script = <<>> THEN ReturnTo(s, Tail(s.kont), None)
    ELSE IF Head(s.upd.script) = "<TypeError>" THEN Raise(s, "TypeError")
    ELSE send_cmd([s EXCEPT !.upd.script = Tail(@)], Head(s.upd.script), s.kont)

(***************************************************************************)
(* The public calls.  A caller that got SwitchBadEchoBudgetExceededError   *)
(* or a TypeError closes the connection before anything else.              *)
(***************************************************************************)
Ready == ph = "done" /\ sock_open /\ err \notin {"SwitchBadEchoBudgetExceededError", "TypeError"}

OpenCall == ph = "done" /\ ~sock_open /\ Set(open_(Begin(Cur, "open_")))

CloseCall == ph = "done" /\ sock_open /\ Set(close(Begin(Cur, "close")))

GotoCall ==
    Ready /\ Set(_goto_admin_main_prompt(
                    [Begin(Cur, "_goto_admin_main_prompt") EXCEPT !.entry = state], <<>>))

\* the wanted configuration is one of D
UpdateCall(D) ==
    Ready /\ \E d \in D :
        Set(update_vlan_conf(Begin(Cur, "update_vlan_conf"), d.vlans, d.ports))

SendCmdCall(C) == Ready /\ \E cmd \in C : Set(send_cmd(Begin(Cur, "send_cmd"), cmd, <<>>))

(***************************************************************************)
(* A callee returned: the frame on top of kont goes on                     *)
(***************************************************************************)
At(label) == ph = "ret" /\ Head(kont) = label

GotoKnownStep == At("goto_known") /\ Set(GotoKnown(Cur, Tail(kont)))
GotoRes == At("goto_res") /\ Set(GotoRes_(Cur))
GotoLogin == At("goto_login") /\ Set(GotoLogin_(Cur))
LoginUser == At("login_user") /\ Set(LoginUser_(Cur))
LoginPass == At("login_pass") /\ Set(LoginPass_(Cur))
OpenRet == At("open_") /\ Set(Open_(Cur))
UpdParse == At("parse") /\ Set(UpdParse_(Cur))
UpdScript == At("script") /\ Set(UpdScript_(Cur))

(***************************************************************************)
(* The device: what one readlines() call may return                        *)
(***************************************************************************)
Host == "sw"

PromptLines ==
    {Host \o prompt_needle(HostStates[i]) : i \in 1..Len(HostStates)}
    \cup {prompt_needle(FixedStates[i]) : i \in 1..Len(FixedStates)}
    \cup {"foo"}

AcceptComment == "*Jan 13: %System-5: New console connection for user admin, source async  ACCEPTED\r\n"
RejectComment == "*Jan 13: %System-5: New console connection for user admin, source async  REJECTED\r\n"
PortComment == "*Jan 13: %Port-5: Port gi6 link down\r\n"

\* the answer to "show vlan static"
TableHeader == "VID | VLAN Name | Untagged Ports | Tagged Ports | Type\r\n"
TableRule == "----+-----------+----------------+--------------+-----\r\n"
Row(vid, untagged, tagged) ==
    "  " \o str(vid) \o " | vlan | " \o untagged \o " | " \o tagged \o " | Static\r\n"

Table(rows) == <<TableHeader, TableRule>> \o rows \o <<Host \o "# ">>

\* nothing (the read timed out), a prompt alone, a payload line and a prompt,
\* a prompt behind a line that looks like another prompt, the answers of the
\* login dialogue, and a VLAN table
Reads ==
    {<<>>}
    \cup {<<p>> : p \in PromptLines}
    \cup {<<"a\r\n", p>> : p \in {Host \o "# ", "foo"}}
    \cup {<<"Username: \r\n", Host \o "(config-if)# ">>}
    \cup {<<AcceptComment, Host \o "# ">>, <<AcceptComment, Host \o "> ">>,
          <<RejectComment, "Username: ">>,
          <<"Incorrect User Name\r\n", "Username: ">>}
    \cup {Table(<<Row(1, "---", "---")>>)}

\* the configurations the caller may want
PortConf(untagged, tagged) == [untagged |-> untagged, tagged |-> tagged]

\* VLAN 1 and no port in any VLAN
Wanted == {[vlans |-> {1}, ports |-> [p \in Ports |-> PortConf(NoVlan, {})]]}

AnyEcho == [first |-> {"ok", "star", "junk", "crcr", "crok", "none"},
            base  |-> {"ok", "star", "junk"},
            last  |-> {"ok", "junk", "crcr"}]

Cmds == {"show vlan static"}

Next ==
    \/ OpenCall \/ CloseCall \/ GotoCall \/ SendCmdCall(Cmds) \/ UpdateCall(Wanted)
    \/ SendChars(AnyEcho) \/ RecvOnce(Reads)
    \/ GotoKnownStep \/ GotoRes \/ GotoLogin \/ LoginUser \/ LoginPass \/ OpenRet
    \/ UpdParse \/ UpdScript

Spec == Init /\ [][Next]_vars

(***************************************************************************)
(* The same calls on a line where a second device may answer: a prompt     *)
(* with another hostname is among the reads                                *)
(***************************************************************************)
OtherHost == "r2"

HostReads == Reads \cup {<<OtherHost \o "# ">>}

NextHost ==
    \/ OpenCall \/ CloseCall \/ GotoCall \/ SendCmdCall(Cmds) \/ UpdateCall(Wanted)
    \/ SendChars(AnyEcho) \/ RecvOnce(HostReads)
    \/ GotoKnownStep \/ GotoRes \/ GotoLogin \/ LoginUser \/ LoginPass \/ OpenRet
    \/ UpdParse \/ UpdScript

SpecHost == Init /\ [][NextHost]_vars

(***************************************************************************)
(* The session as open_ leaves it when the device answers the blank        *)
(* keystroke with its admin prompt                                         *)
(***************************************************************************)
Opened ==
    /\ sock_open = TRUE /\ state = ADMIN_MAIN /\ hostname = Host /\ bad_echo = 0
    /\ timeout = READ_TIMEOUT
    /\ op = "open_" /\ ph = "done" /\ kont = <<>>
    /\ snd = [string |-> "\n", bypass_echo_check |-> TRUE, auto_more |-> FALSE]
    /\ tries = 0 /\ more = 0 /\ whole_out = <<>> /\ all_comments = <<>>
    /\ rv = None /\ err = NoErr /\ txlog = "\n" /\ sends = <<snd>>
    /\ rx = << <<Host \o "# ">> >>
    /\ entry = None /\ upd = NoUpd /\ ifr = NoIfr /\ chk = NoChk

\* the device echoes every character as it is
GoodEcho == [first |-> {"ok"}, base |-> {"ok"}, last |-> {"ok"}]

(***************************************************************************)
(* Reconciliations on an open session: the tables the device may show and  *)
(* the configurations the caller may want                                  *)
(***************************************************************************)
VlanReads ==
    {Table(<<Row(1, "gi1-2", "---")>>),
     Table(<<Row(1, "gi1", "---"), Row(2, "gi2", "gi1")>>),
     Table(<<Row(2, "gi1-2", "---")>>),
     Table(<<Row(1, "gi1,lag1", "---"), Row(2, "gi1-2", "gi1")>>),
     <<Host \o "# ">>,
     <<Host \o "(config)# ">>}

WantedVlan ==
    {[vlans |-> v, ports |-> [p \in Ports |-> IF p = PORT_MIN THEN p1 ELSE p2]] :
        v \in {{1}, {2}, {1, 2}},
        p1 \in {PortConf(1, {}), PortConf(1, {2}), PortConf(NoVlan, {}),
                PortConf(NoVlan, {1})},
        p2 \in {PortConf(1, {}), PortConf(2, {})}}

NextVlan ==
    \/ UpdateCall(WantedVlan) \/ SendChars(GoodEcho) \/ RecvOnce(VlanReads)
    \/ UpdParse \/ UpdScript \/ GotoRes

SpecVlan == Opened /\ [][NextVlan]_vars

(***************************************************************************)
(* Commands on an open session whose answers the device pages              *)
(***************************************************************************)
\* the first page of an answer: its lines, then the prompt
FirstPage(lines, prompt) ==
    [i \in 1..Len(lines) |-> lines[i] \o "\r\n"] \o <<prompt>>

\* a further page: the pager's backspace line, its escape sequence in front
\* of the first line, the lines, then the prompt
ContPage(lines, prompt) ==
    <<_MORE_MAGIC[1] \o "\r\n">>
    \o FirstPage(<<_MORE_MAGIC[2] \o lines[1]>> \o Tail(lines), prompt)

\* an answer is one page, or a first page, further pages and a last page
FirstPages == {FirstPage(<<"a">>, p) : p \in {prompt_needle(MORE), Host \o "# "}}
ContPages == {ContPage(<<"b", "c">>, prompt_needle(MORE)), ContPage(<<"d">>, Host \o "# ")}

\* nothing, a comment alone, a page that carries a comment, pages, and a
\* further page whose backspace line is not followed by the escape sequence
PagerReads ==
    {<<>>, <<PortComment>>, <<"a\r\n", PortComment, Host \o "# ">>,
     <<_MORE_MAGIC[1] \o "\r\n", "a\r\n", Host \o "# ">>}
    \cup FirstPages \cup ContPages

NextRecv == SendCmdCall(Cmds) \/ SendChars(GoodEcho) \/ RecvOnce(PagerReads)

SpecRecv == Opened /\ [][NextRecv]_vars

(***************************************************************************)
(* Sw._send, lines 190-201, for one character taken on its own: the state  *)
(* of the session, the character written, the bytes the device delivers    *)
(***************************************************************************)
EchoCheck_(c) ==
    [c EXCEPT !.ph = "done", !.reads = EchoReads(c.bytes), !.echo = EchoRead(c.bytes),
              !.bad = BadEcho(c.state, EchoRead(c.bytes), c.char)]

EchoCheckInit(S, C, B) ==
    /\ __init__ /\ ifr = NoIfr
    /\ chk \in {[NoChk EXCEPT !.state = st, !.char = char, !.bytes = bytes, !.ph = "call"] :
                   st \in S, char \in C, bytes \in B}

EchoCheckStep ==
    /\ chk.ph = "call"
    /\ chk' = EchoCheck_(chk)
    /\ UNCHANGED <<sock_open, state, hostname, bad_echo, timeout, op, ph, kont, snd,
                   tries, more, whole_out, all_comments, rv, err, txlog, sends, rx,
                   entry, upd, ifr>>

\* the characters sent, and what the device may deliver for one of them:
\* nothing, one byte, a carriage return and what follows it
SentChars == {"a", "p", "*", "\n"}
EchoBytes ==
    {"", "a", "p", "*", "x", "\n", "\r", "\ra", "\rp", "\r*", "\rx", "\r\n", "\r\r",
     "a*", "*a", "\r\ra"}

NextEcho == EchoCheckStep

SpecEcho == EchoCheckInit(_States \cup {None}, SentChars, EchoBytes) /\ [][NextEcho]_vars

(***************************************************************************)
(* _str_to_if_range, a static method, called on its own                    *)
(***************************************************************************)
\* the interfaces of the range, or the ValueError of int()
StrToIfRange_(string) ==
    IF IfRangeError(string)
    THEN [string |-> string, ph |-> "done", err |-> "ValueError", range_ |-> {}]
    ELSE [string |-> string, ph |-> "done", err |-> NoErr,
          range_ |-> _str_to_if_range(string)]

\* the method is entered with one of the strings S
StrToIfRangeInit(S) ==
    /\ __init__ /\ chk = NoChk
    /\ ifr \in {[string |-> string, ph |-> "call", err |-> NoErr, range_ |-> {}] :
                   string \in S}

StrToIfRangeCall ==
    /\ ifr.ph = "call"
    /\ ifr' = StrToIfRange_(ifr.string)
    /\ UNCHANGED <<sock_open, state, hostname, bad_echo, timeout, op, ph, kont, snd,
                   tries, more, whole_out, all_comments, rv, err, txlog, sends, rx,
                   entry, upd, chk>>

\* the elements a port cell of the table is made of, each with the
\* interfaces it stands for
RangeTokens ==
    {[text |-> "gi4", ports |-> {4}], [text |-> "gi6", ports |-> {6}],
     [text |-> "gi8-10", ports |-> {8, 9, 10}],
     [text |-> "gi16-18", ports |-> {16, 17, 18}],
     [text |-> "lag2", ports |-> {}], [text |-> "lag8-15", ports |-> {}],
     [text |-> "---", ports |-> {}]}

\* a cell holds at most MaxTokens elements (the example of the docstring aside)
MaxTokens == 3

TokenSeqs ==
    UNION {[1..n -> RangeTokens] : n \in 1..MaxTokens}
    \cup {<<[text |-> "gi4", ports |-> {4}], [text |-> "gi6", ports |-> {6}],
            [text |-> "gi8-10", ports |-> {8, 9, 10}],
            [text |-> "gi16-18", ports |-> {16, 17, 18}],
            [text |-> "lag2", ports |-> {}]>>}

\* the elements separated by ','
RECURSIVE TextOf(_)
TextOf(toks) ==
    IF Len(toks) = 1 THEN toks[1].text
    ELSE toks[1].text \o "," \o TextOf(Tail(toks))

RangeStrings == {TextOf(toks) : toks \in TokenSeqs}

NextRange == StrToIfRangeCall

SpecRange == StrToIfRangeInit(RangeStrings) /\ [][NextRange]_vars

(***************************************************************************)
(* Properties of _goto_admin_main_prompt and open_                         *)
(***************************************************************************)
GotoReturned == op = "_goto_admin_main_prompt" /\ ph = "done" /\ err = NoErr

\* C1: whenever _goto_admin_main_prompt returns, the value it returns is True
\* if and only if the state it leaves is ADMIN_MAIN.
C1_SuccessIffAdminMain ==
    GotoReturned => ((rv = "True") <=> (state = ADMIN_MAIN))

\* the last read of the last _send, and its last line
LastRead == rx[Len(rx)]
EndsWith(raw, line) == raw # <<>> /\ raw[Len(raw)] = line

\* the device answered the last string sent with its admin prompt
AdminAnswer == rx # <<>> /\ EndsWith(LastRead, Host \o prompt_needle(ADMIN_MAIN))

Keystroke == [string |-> "\n", bypass_echo_check |-> TRUE, auto_more |-> FALSE]
Interrupt == [string |-> ETX, bypass_echo_check |-> TRUE, auto_more |-> FALSE]
Command(cmd) == [string |-> cmd \o "\n", bypass_echo_check |-> FALSE, auto_more |-> TRUE]

\* C2: one call of _goto_admin_main_prompt entered in MORE sends the
\* interrupt character and nothing else, entered in USER_MAIN the command
\* enable, entered in a configuration state the command end, entered in
\* LOGIN_USERNAME the user name and, once the device asks for it, the
\* password; entered in the unknown state or in PRESS_ANY_KEY it first sends
\* a line feed without checking the echo.  When the device answers what was
\* sent last with its admin prompt, the state is ADMIN_MAIN at the return
\* (and a login the device accepted returns True).
C2_Recovery ==
    GotoReturned =>
        /\ entry = MORE => sends = <<Interrupt>>
        /\ entry = USER_MAIN => sends = <<Command("enable")>>
        /\ entry \in {CONFIG, CONFIG_VLAN, CONFIG_IF, CONFIG_IF_RANGE}
              => sends = <<Command("end")>>
        /\ entry = LOGIN_USERNAME
              => sends \in {<<Command(USER)>>, <<Command(USER), Command(PASSWORD)>>}
        /\ entry = LOGIN_PASSWORD => sends = <<Command(PASSWORD)>>
        /\ entry \in {None, PRESS_ANY_KEY} => (sends # <<>> /\ sends[1] = Keystroke)
        /\ (entry # ADMIN_MAIN /\ AdminAnswer) => state = ADMIN_MAIN
        /\ (entry = LOGIN_USERNAME /\ AdminAnswer /\ Len(sends) = 2
              /\ AnyContains(all_comments, "ACCEPTED")) => rv = "True"

C2_Witness ==
    /\ GotoReturned /\ entry = LOGIN_USERNAME /\ AdminAnswer /\ Len(sends) = 2
    /\ state = ADMIN_MAIN /\ rv = "True"

\* C3: a call of _goto_admin_main_prompt entered in ADMIN_MAIN sends nothing,
\* leaves the state as it is and returns True at once; and a call that
\* returned True left the state ADMIN_MAIN, so that the next call is such a call.
C3_Idempotent ==
    /\ (op = "_goto_admin_main_prompt" /\ entry = ADMIN_MAIN)
          => (ph = "done" /\ err = NoErr /\ sends = <<>> /\ txlog = ""
              /\ state = ADMIN_MAIN /\ rv = "True")
    /\ (GotoReturned /\ rv = "True") => state = ADMIN_MAIN

C3_Witness == GotoReturned /\ entry = ADMIN_MAIN /\ rv = "True" /\ sends = <<>>

\* C4: whenever open_ returns without an exception, the state is ADMIN_MAIN.
C4_OpenLeavesAdminMain ==
    (op = "open_" /\ ph = "done" /\ err = NoErr) => state = ADMIN_MAIN

(***************************************************************************)
(* Properties of the echo check of _send                                   *)
(***************************************************************************)
EchoError == "SwitchBadEchoBudgetExceededError"

\* C7: a _send fails with SwitchBadEchoBudgetExceededError exactly when a
\* bad echo has brought the count of the connection above BAD_ECHO_BUDGET:
\* with the count up to the budget the echo check has failed no command (a
\* command that ended with an exception before its string was written out
\* was failed by the echo check), and with the count above the budget the
\* command has failed with that exception.
C7_EchoBudget ==
    ph = "done" =>
        /\ (err = EchoError) <=> (bad_echo > BAD_ECHO_BUDGET)
        /\ (err # NoErr /\ Len(txlog) < Len(snd.string)) => bad_echo > BAD_ECHO_BUDGET

\* C8: no step lowers the count of bad echoes except close, which leaves
\* state None, hostname None and the count 0, as __init__ does.
C8_MonotonicCount ==
    [][IF sock_open /\ ~sock_open'
       THEN state' = None /\ hostname' = None /\ bad_echo' = 0
       ELSE bad_echo' >= bad_echo]_vars

\* a reconciliation of several commands ended with the bad echo that was
\* counted on the way still counted
C8_Witness ==
    /\ op = "update_vlan_conf" /\ ph = "done" /\ err = NoErr
    /\ Len(sends) > 1 /\ bad_echo > 0

\* byte i of what the device delivered, nothing when there is no such byte
Byte(bytes, i) == IF i <= Len(bytes) THEN Char(bytes, i) ELSE ""

\* the byte the check compares: the first, or the second behind a carriage
\* return
Compared(bytes) == IF Byte(bytes, 1) = "\r" THEN Byte(bytes, 2) ELSE Byte(bytes, 1)

\* C18: the echo of a character is accepted if and only if it is the
\* character itself, or the state is LOGIN_PASSWORD and the echo is '*'; in
\* any other state a '*' for another character is a bad echo; a carriage
\* return read as the echo is dropped and one more byte, and no more than
\* one, is read and compared in its place.
C18_PasswordMask ==
    chk.ph = "done" =>
        /\ chk.reads = IF Byte(chk.bytes, 1) = "\r" THEN 2 ELSE 1
        /\ chk.echo = Compared(chk.bytes)
        /\ ~chk.bad <=> \/ Compared(chk.bytes) = chk.char
                        \/ chk.state = LOGIN_PASSWORD /\ Compared(chk.bytes) = "*"
        /\ (chk.state # LOGIN_PASSWORD /\ Compared(chk.bytes) = "*" /\ chk.char # "*")
              => chk.bad

\* a masked echo behind a carriage return, accepted in LOGIN_PASSWORD
C18_Witness ==
    /\ chk.ph = "done" /\ chk.state = LOGIN_PASSWORD /\ chk.char = "p"
    /\ chk.bytes = "\r*" /\ chk.reads = 2 /\ ~chk.bad

(***************************************************************************)
(* Properties of update_vlan_conf                                          *)
(***************************************************************************)
UpdateReturned == op = "update_vlan_conf" /\ ph = "done" /\ err = NoErr

\* the configuration read from the device is the wanted one
SameConf == upd.vlans_old = upd.vlans_new /\ upd.ports_old = upd.ports_new

\* C5 as stated: a reconciliation that finds the wanted configuration on
\* the device has sent the device no command at all.
C5_NoCommandAtAll == (UpdateReturned /\ SameConf) => sends = <<>>

\* C5 as the code has it: a reconciliation that finds the wanted
\* configuration on the device has sent the query "show vlan static" it
\* read the configuration with, and no other byte.
C5_QueryOnly ==
    (UpdateReturned /\ SameConf) =>
        /\ sends = <<Command("show vlan static")>>
        /\ txlog = "show vlan static\n"

C5_Witness == UpdateReturned /\ SameConf /\ upd.vlans_new # {}

\* the commands of the call in the order sent, without their line feed
Sent == [i \in 1..Len(sends) |-> SubSeq(sends[i].string, 1, Len(sends[i].string) - 1)]
IsDelete(c) == startswith(c, "no vlan ")
IsCreate(c) == startswith(c, "vlan ")
IsInterface(c) == startswith(c, "interface GigabitEthernet ")
IsSwitchport(c) == startswith(c, "switchport ")

\* the query, and what _goto_admin_main_prompt may send (the interrupt
\* character and the line feed are nothing without their last character)
Recovery == {"show vlan static", "end", "enable", USER, PASSWORD, ""}

\* C6: the script of a reconciliation starts with config: the commands sent
\* before it are the query and what brings the device back to its admin
\* prompt, and every command that deletes or creates a VLAN or configures
\* an interface comes after it; every "no vlan" comes before every "vlan",
\* and every "vlan" before every "interface GigabitEthernet".
C6_ScriptOrder ==
    op = "update_vlan_conf" =>
        \A i, j \in 1..Len(Sent) :
            /\ (IsDelete(Sent[i]) \/ IsCreate(Sent[i]) \/ IsInterface(Sent[i])
                 \/ IsSwitchport(Sent[i]) \/ Sent[i] = "exit")
                  => \E c \in 1..(i - 1) :
                        /\ Sent[c] = "config"
                        /\ \A b \in 1..(c - 1) : Sent[b] \in Recovery
            /\ (IsDelete(Sent[i]) /\ IsCreate(Sent[j])) => i < j
            /\ (IsCreate(Sent[i]) /\ IsInterface(Sent[j])) => i < j

\* a script that deletes a VLAN, creates one and configures an interface
C6_Witness ==
    /\ UpdateReturned
    /\ \E i, j, k \in 1..Len(Sent) :
          IsDelete(Sent[i]) /\ IsCreate(Sent[j]) /\ IsInterface(Sent[k])

\* C20: update_vlan_conf writes the command config, the first of its
\* script, only in the state ADMIN_MAIN: when the _goto_admin_main_prompt
\* before it has left another state, no command of the script is sent.
C20_ConfigOnlyInAdminMain ==
    (op = "update_vlan_conf" /\ ph = "tx" /\ snd = Command("config"))
        => state = ADMIN_MAIN

(***************************************************************************)
(* Properties of _recv                                                     *)
(***************************************************************************)
CmdReturned == op = "send_cmd" /\ ph = "done" /\ err = NoErr

\* C9: the comments a command returns are the comments of every read made
\* for it, in the order of arrival.
C9_CommentsKept ==
    CmdReturned => all_comments = Concat([i \in 1..Len(rx) |-> RawComments(rx[i])])

\* the reads that returned something
Delivered == SelectSeq(rx, LAMBDA r : r # <<>>)

\* the device sent a first page and then further pages, nothing else
WellPaged ==
    /\ Delivered # <<>>
    /\ Delivered[1] \in FirstPages
    /\ \A i \in 2..Len(Delivered) : Delivered[i] \in ContPages

\* the lines the device put on a page
PayloadOf(page) ==
    CHOOSE l \in {<<"a">>, <<"b", "c">>, <<"d">>} :
        \E p \in {prompt_needle(MORE), Host \o "# "} :
            page \in {FirstPage(l, p), ContPage(l, p)}

RECURSIVE Spaces(_)
Spaces(n) == IF n = 0 THEN "" ELSE " " \o Spaces(n - 1)

\* C10: a command whose answer came in pages returns the lines of the pages
\* in their order and nothing else: no --More-- line, no backspace line, no
\* line that starts with the escape sequence; the state is not MORE; and
\* after the command one space, and no other byte, was written for each
\* further page.
C10_Pagination ==
    (CmdReturned /\ WellPaged) =>
        /\ state # MORE
        /\ whole_out = Concat([i \in 1..Len(Delivered) |-> PayloadOf(Delivered[i])])
        /\ \A i \in 1..Len(whole_out) :
              /\ whole_out[i] # prompt_needle(MORE)
              /\ whole_out[i] # _MORE_MAGIC[1]
              /\ ~startswith(whole_out[i], _MORE_MAGIC[2])
        /\ txlog = snd.string \o Spaces(Len(Delivered) - 1)

\* an answer of three pages
C10_Witness == CmdReturned /\ WellPaged /\ Len(Delivered) = 3

(***************************************************************************)
(* Properties of _recv_once_retry                                          *)
(***************************************************************************)
ReadTimeout == "SerialTimeoutException"

\* the read found no line that is left non-empty by _filter
TimedOut(raw) == FilteredLines(raw) = <<>>

RECURSIVE Pow2(_)
Pow2(n) == IF n = 0 THEN 1 ELSE 2 * Pow2(n - 1)

\* the last n reads of the running _send
LastReads(n) == SubSeq(rx, Len(rx) - n + 1, Len(rx))

\* the output _recv_once hands back for a read, the hostname known or not
OutOf(raw) == {_parse_prompt(FilteredLines(raw), h).out : h \in {None, hostname}}

\* C11: one _recv_once_retry makes at most READ_RETRIES attempts; each failed
\* attempt doubles the timeout of the next, so that the attempts of the first
\* read of a _send wait READ_TIMEOUT, twice that, four times that; the read
\* returns the output of the first attempt that found a non-empty line, all
\* the attempts before it having timed out; it raises SerialTimeoutException
\* exactly when READ_RETRIES attempts in a row have timed out, and that
\* exception ends the public call with no further read or send.
C11_BoundedRead ==
    /\ [](/\ tries <= READ_RETRIES /\ Len(rx) >= tries
          /\ (ph = "rx" \/ err = ReadTimeout)
                => \A i \in 1..tries : TimedOut(LastReads(tries)[i])
          /\ (tries = READ_RETRIES) <=> (err = ReadTimeout)
          /\ err = ReadTimeout => (ph = "done" /\ kont = <<>>)
          /\ (ph = "rx" /\ more = 0) => timeout = READ_TIMEOUT * Pow2(tries)
          /\ (ph \in {"ret", "done"} /\ err = NoErr /\ sends # <<>> /\ more = 0)
                => /\ Len(rx) \in 1..READ_RETRIES
                   /\ \A i \in 1..(Len(rx) - 1) : TimedOut(rx[i])
                   /\ ~TimedOut(LastRead)
                   /\ whole_out \in OutOf(LastRead))
    /\ [][(ph = "rx" /\ tries' = tries + 1) => timeout' = 2 * timeout]_vars

\* a command answered at the last attempt allowed
C11_Witness ==
    /\ CmdReturned /\ more = 0 /\ Len(rx) = READ_RETRIES /\ ~TimedOut(LastRead)

(***************************************************************************)
(* Properties of _login                                                    *)
(***************************************************************************)
\* _login has just returned to _goto_admin_main_prompt, the string it sent
\* last being the one given
LoginReturnedAfter(string) ==
    /\ ph = "ret" /\ Head(kont) = "goto_login"
    /\ sends # <<>> /\ sends[Len(sends)] = Command(string)

Accepted == AnyContains(all_comments, "ACCEPTED")
Rejected == AnyContains(all_comments, "REJECTED")

\* what _login returns for credentials the device refused
BadCredentials == "False"

\* C12: when _login returns after the password, a comment with ACCEPTED
\* makes it return True whatever the output holds, a comment with REJECTED
\* (and none with ACCEPTED) makes it return the failure of bad credentials,
\* and with neither comment it returns something that is neither success
\* nor the failure of bad credentials.
C12_PasswordOutcome ==
    LoginReturnedAfter(PASSWORD) =>
        /\ Accepted => rv = "True"
        /\ (~Accepted /\ Rejected) => rv = BadCredentials
        /\ (~Accepted /\ ~Rejected) => rv \notin {"True", BadCredentials}

\* the device answered the user name with its invalid-username line
InvalidUser == AnyContains(whole_out, "Incorrect User Name")

\* C17: _login returns to its caller after the user name, the password not
\* sent, only when the output holds the invalid-username line, and it then
\* returns the failure of bad credentials; an answer without that line that
\* leaves a state other than LOGIN_PASSWORD does not make _login return a
\* failure: it ends the call with an AssertionError.
C17_UsernameOutcome ==
    LoginReturnedAfter(USER) => (InvalidUser /\ rv = BadCredentials)

\* the string is about to be written to the device
Writing(string) == ph = "tx" /\ snd = Command(string)

\* C23: the password is written to the device only in the state
\* LOGIN_PASSWORD and the user name only in the state LOGIN_USERNAME; when
\* _login has returned after the user name (the device refused it, or the
\* state it left is not LOGIN_PASSWORD) the call has not sent the password.
C23_CredentialsAtPrompt ==
    /\ Writing(PASSWORD) => state = LOGIN_PASSWORD
    /\ Writing(USER) => state = LOGIN_USERNAME
    /\ LoginReturnedAfter(USER)
          => \A i \in 1..Len(sends) : sends[i] # Command(PASSWORD)

\* the password about to be written behind the user name
C23_Witness ==
    /\ Writing(PASSWORD) /\ state = LOGIN_PASSWORD
    /\ Len(sends) > 1 /\ sends[Len(sends) - 1] = Command(USER)

(***************************************************************************)
(* Properties of _parse_vlans                                              *)
(***************************************************************************)
\* update_vlan_conf has parsed the answer to its query and sent nothing since
Parsed ==
    /\ op = "update_vlan_conf" /\ err = NoErr /\ Len(sends) = 1
    /\ \/ ph = "done"
       \/ ph = "ret" /\ Head(kont) = "script"

\* the rows of the table read: the lines after the two header lines
TableRows == SubSeq(whole_out, 3, Len(whole_out))

\* the cells of row i: its VLAN, the ports it lists untagged and tagged
Cell(i, c) == strip(split(TableRows[i], "|")[c])
VidOf(i) == int(Cell(i, 1))
UntaggedOf(i) == _str_to_if_range(Cell(i, 3))
TaggedOf(i) == _str_to_if_range(Cell(i, 4))

\* the rows that list port p untagged
UntaggedRows(p) == {i \in 1..Len(TableRows) : p \in UntaggedOf(i)}

\* C13: after the table is parsed, the untagged VLAN of a port is the VLAN of
\* the first row that lists the port untagged (none when no row does): a
\* later row that lists it untagged in another VLAN changes nothing and
\* raises nothing; the tagged set of a port holds the VLAN of every row that
\* lists the port tagged, and no other; and the set of VLANs holds the VLAN
\* of every row.
C13_FirstWriterWins ==
    Parsed =>
        /\ upd.vlans_old = {VidOf(i) : i \in 1..Len(TableRows)}
        /\ \A p \in Ports :
              /\ UntaggedRows(p) = {} => upd.ports_old[p].untagged = NoVlan
              /\ \A i \in UntaggedRows(p) :
                    (\A j \in UntaggedRows(p) : i <= j)
                        => upd.ports_old[p].untagged = VidOf(i)
              /\ upd.ports_old[p].tagged
                    = {VidOf(i) : i \in {r \in 1..Len(TableRows) : p \in TaggedOf(r)}}

\* two rows list the same port untagged, in two VLANs
C13_Witness ==
    /\ Parsed
    /\ \E p \in Ports : \E i, j \in UntaggedRows(p) :
          i < j /\ VidOf(i) # VidOf(j) /\ upd.ports_old[p].untagged = VidOf(i)

(***************************************************************************)
(* Properties of the interface blocks of update_vlan_conf                  *)
(***************************************************************************)
\* update_vlan_conf has ended and no read timed out on the way
UpdateEnded == op = "update_vlan_conf" /\ ph = "done" /\ err # ReadTimeout

Changed(p) == upd.ports_old[p] # upd.ports_new[p]

\* where the command that enters the interface of port p was sent, 0 if never
InterfaceAt(p) ==
    LET I == {i \in 1..Len(Sent) : Sent[i] = "interface GigabitEthernet " \o str(p)}
    IN  IF I = {} THEN 0 ELSE CHOOSE i \in I : \A j \in I : i <= j

\* where the exit that follows position i was sent, 0 if never
ExitAfter(i) ==
    LET J == {j \in (i + 1)..Len(Sent) : Sent[j] = "exit"}
    IN  IF J = {} THEN 0 ELSE CHOOSE j \in J : \A k \in J : j <= k

\* the commands sent between "interface GigabitEthernet p" and its exit
BlockOf(p) == SubSeq(Sent, InterfaceAt(p) + 1, ExitAfter(InterfaceAt(p)) - 1)

\* the VLANs a command lists after its first n characters
Listed(c, n) ==
    LET ids == split(SubSeq(c, n + 1, Len(c)), ",")
    IN  {int(ids[i]) : i \in 1..Len(ids)}

RemovePrefix == "switchport trunk allowed vlan remove "
AddPrefix == "switchport trunk allowed vlan add "

\* the block is that of a port wanted in access mode in VLAN untagged
IsAccessBlock(b, untagged) ==
    b = <<"switchport mode access", "switchport access vlan " \o str(untagged)>>

\* the block is that of a trunk port: mode, native VLAN, then the VLANs to
\* remove (when there are some) and the VLANs to add (when there are some)
IsTrunkBlock(b, native, removed, added) ==
    /\ Len(b) = 2 + (IF removed # {} THEN 1 ELSE 0) + (IF added # {} THEN 1 ELSE 0)
    /\ b[1] = "switchport mode trunk"
    /\ b[2] = "switchport trunk native vlan " \o str(native)
    /\ removed # {} => (startswith(b[3], RemovePrefix)
                          /\ Listed(b[3], Len(RemovePrefix)) = removed)
    /\ added # {} => (startswith(b[Len(b)], AddPrefix)
                        /\ Listed(b[Len(b)], Len(AddPrefix)) = added)

\* C14: when update_vlan_conf has ended, the interface of a port was entered
\* if and only if what is wanted for the port differs from what the device
\* showed for it, and it was then left with exit; the commands between the
\* two are, for a port wanted with no tagged VLAN, access mode and the
\* wanted untagged VLAN as access VLAN, and for a port wanted with tagged
\* VLANs, trunk mode, the wanted untagged VLAN (the default VLAN when there
\* is none) as native VLAN, one remove command listing the VLANs the port
\* has tagged and shall not have, when there are some, and one add command
\* listing the VLANs it shall have tagged and has not, when there are some.
C14_PortScript ==
    UpdateEnded =>
        \A p \in Ports :
            /\ (InterfaceAt(p) # 0) <=> Changed(p)
            /\ Changed(p) =>
                  /\ ExitAfter(InterfaceAt(p)) # 0
                  /\ IF upd.ports_new[p].tagged = {}
                     THEN IsAccessBlock(BlockOf(p), upd.ports_new[p].untagged)
                     ELSE IsTrunkBlock(BlockOf(p),
                             IF upd.ports_new[p].untagged # NoVlan
                             THEN upd.ports_new[p].untagged ELSE DEFAULT_VLAN,
                             upd.ports_old[p].tagged \ upd.ports_new[p].tagged,
                             upd.ports_new[p].tagged \ upd.ports_old[p].tagged)

\* update_vlan_conf has ended after it sent config, and neither a read
\* timed out nor the echo budget was exceeded
ConfigEnded ==
    /\ UpdateEnded /\ err # EchoError
    /\ \E i \in 1..Len(Sent) : Sent[i] = "config"

\* C21: a reconciliation that has sent config, and that no read timeout and
\* no exceeded echo budget has ended, has sent end as its last command;
\* every "vlan" it sent is followed at once by exit; and every "interface
\* GigabitEthernet" it sent is followed by an exit before the next
\* "interface GigabitEthernet" and before end.
C21_LeavesConfigMode ==
    ConfigEnded =>
        /\ Sent[Len(Sent)] = "end"
        /\ \A i \in 1..Len(Sent) :
              /\ IsCreate(Sent[i]) => (i < Len(Sent) /\ Sent[i + 1] = "exit")
              /\ IsInterface(Sent[i]) =>
                    /\ ExitAfter(i) # 0
                    /\ \A j \in (i + 1)..(ExitAfter(i) - 1) :
                          ~IsInterface(Sent[j]) /\ Sent[j] # "end"

(***************************************************************************)
(* Properties of _str_to_if_range                                          *)
(***************************************************************************)
\* the interfaces the element with this text stands for
Meant(text) == (CHOOSE t \in RangeTokens : t.text = text).ports

\* C15: _str_to_if_range returns the interfaces of the elements of its
\* argument that start with "gi", a number standing for itself and a pair
\* A-B for every interface from A to B; an element that does not start with
\* "gi" adds nothing and raises nothing; "gi4,gi6,gi8-10,gi16-18,lag2" gives
\* 4, 6, 8, 9, 10, 16, 17 and 18.
C15_RangeExpansion ==
    ifr.ph = "done" =>
        /\ ifr.err = NoErr
        /\ ifr.range_ = UNION {Meant(split(ifr.string, ",")[i]) :
                                  i \in 1..Len(split(ifr.string, ","))}
        /\ ifr.string = "gi4,gi6,gi8-10,gi16-18,lag2"
              => ifr.range_ = {4, 6, 8, 9, 10, 16, 17, 18}

C15_Witness ==
    /\ ifr.ph = "done"
    /\ ifr.string = "gi4,gi6,gi8-10,gi16-18,lag2"
    /\ ifr.range_ = {4, 6, 8, 9, 10, 16, 17, 18}

(***************************************************************************)
(* Properties of _parse_prompt                                             *)
(***************************************************************************)
HostPrefixed == {CONFIG, CONFIG_VLAN, CONFIG_IF, CONFIG_IF_RANGE, ADMIN_MAIN, USER_MAIN}

\* the line starts with the needle of state s behind the prefix
Matches(line, prefix, s) == startswith(line, prefix \o prompt_needle(s))

\* the state a last line stands for when the hostname known so far is host
Classified(line, host) ==
    IF Matches(line, "", PRESS_ANY_KEY) THEN PRESS_ANY_KEY
    ELSE IF Matches(line, "", LOGIN_USERNAME) THEN LOGIN_USERNAME
    ELSE IF Matches(line, "", LOGIN_PASSWORD) THEN LOGIN_PASSWORD
    ELSE IF Matches(line, "", MORE) THEN MORE
    ELSE With(IF host = None THEN _determine_hostname(line) ELSE host, LAMBDA h :
             IF h = None THEN None
             ELSE IF Matches(line, h, CONFIG) THEN CONFIG
             ELSE IF Matches(line, h, CONFIG_VLAN) THEN CONFIG_VLAN
             ELSE IF Matches(line, h, CONFIG_IF) THEN CONFIG_IF
             ELSE IF Matches(line, h, CONFIG_IF_RANGE) THEN CONFIG_IF_RANGE
             ELSE IF Matches(line, h, ADMIN_MAIN) THEN ADMIN_MAIN
             ELSE IF Matches(line, h, USER_MAIN) THEN USER_MAIN
             ELSE None)

\* a read has just been taken in
ReadTaken == ph = "rx" /\ Len(rx') = Len(rx) + 1

\* C16: the state after a read is decided by the last line of the read
\* alone: the first of PRESS_ANY_KEY, LOGIN_USERNAME, LOGIN_PASSWORD and
\* MORE whose needle starts the line; failing that, None when no hostname
\* is known and none can be taken from the line; failing that, the first of
\* CONFIG, CONFIG_VLAN, CONFIG_IF, CONFIG_IF_RANGE, ADMIN_MAIN and USER_MAIN
\* whose needle follows the hostname at the start of the line; failing
\* that, None.  The line is taken off the output exactly when the state is
\* MORE or one of the six that carry the hostname.  And the state is never
\* one of those six while no hostname is known.
C16_PromptClassification ==
    /\ [](state \in HostPrefixed => hostname # None)
    /\ [][ReadTaken =>
             \A lines \in {FilteredLines(rx'[Len(rx')])} :
                 lines # <<>> =>
                     /\ state' = Classified(lines[Len(lines)], hostname)
                     /\ more = 0 =>
                           whole_out' = IF state' \in HostPrefixed \cup {MORE}
                                        THEN Pop(lines) ELSE lines]_vars

\* an answer of two lines, the second the admin prompt, read with the first
\* line left as the output
C16_Witness ==
    /\ rx # <<>> /\ LastRead = <<"a\r\n", Host \o "# ">>
    /\ state = ADMIN_MAIN /\ whole_out = <<"a">>

(***************************************************************************)
(* Properties of the hostname                                              *)
(***************************************************************************)
\* C19: once a hostname is set no step changes it, whatever is read, sent,
\* answered in a login or reconciled, except close, which clears it; the
\* next connection then takes the hostname of the first prompt it reads.
C19_HostnameWriteOnce ==
    [][hostname # None =>
          \/ hostname' = hostname
          \/ sock_open /\ ~sock_open' /\ hostname' = None]_vars

\* a connection that learnt the other hostname reads the prompt of sw and
\* keeps the hostname it has
C19_Witness ==
    /\ hostname = OtherHost /\ rx # <<>> /\ LastRead = <<Host \o "# ">> /\ state = None

(***************************************************************************)
(* Properties of the further reads of _recv                                *)
(***************************************************************************)
\* a send_cmd has ended whose _recv asked the device for a further page
PagedCmdEnded == op = "send_cmd" /\ ph = "done" /\ more > 0

\* C22: a command whose _recv has read a further page, whatever the page
\* holds (nothing but a prompt, one line, the backspace line alone), ends
\* with the page taken into its output or with SerialTimeoutException, and
\* with no other exception.
C22_ContinuationNeverCrashes ==
    PagedCmdEnded => err \in {NoErr, ReadTimeout}

====
